---- MODULE Spec2Model ----
(***************************************************************************)
(* Model of src/baseCtrl.js: the Base CRUD resource controller.  The ORM   *)
(* model (Sequelize), the HTTP error constructor and lodash are external   *)
(* collaborators: lodash helpers are operators that compute what the       *)
(* library computes, ORM calls are recorded and their results are chosen   *)
(* nondeterministically among the shapes the ORM resolves/rejects with.    *)
(***************************************************************************)
EXTENDS Integers, Sequences, FiniteSets, TLC

VARIABLES
    defaultAttributes, \* this.defaultAttributes (null or a list set by a subclass)
    defaultExclude,    \* this.defaultExclude    (null or a list set by a subclass)
    pc,                \* position of the current request
    request,           \* the public method called and its arguments
    options,           \* the options built by _getOptions for this request
    calls,             \* the ORM calls issued by this request, in order
    promises,          \* promises[i] is the promise calls[i] returned
    result             \* the promise returned to the caller

vars == <<defaultAttributes, defaultExclude, pc, request, options, calls,
          promises, result>>

-----------------------------------------------------------------------------
(* Bounds of the model *)

MaxParams == 3     \* keys of a request's parameter object
MaxFlowParams == 1 \* keys of the parameter object of find/findById in Spec
MaxRows == 2       \* rows an ORM call finds or affects
MaxId == 1         \* ids are 0..MaxId
MaxDigits == 20    \* strings "0".."MaxDigits" parse as numbers

-----------------------------------------------------------------------------
(* JavaScript values.  Every value is a record of the same shape so that   *)
(* values of different JS types can be compared.                           *)

Undefined == [kind |-> "undefined", s |-> "", n |-> 0, list |-> <<>>, obj |-> <<>>]
Null == [kind |-> "null", s |-> "", n |-> 0, list |-> <<>>, obj |-> <<>>]
Str(s) == [kind |-> "string", s |-> s, n |-> 0, list |-> <<>>, obj |-> <<>>]
Num(n) == [kind |-> "number", s |-> "", n |-> n, list |-> <<>>, obj |-> <<>>]
\* NaN has type number; it is told apart from the other numbers by s.
NaN == [kind |-> "number", s |-> "NaN", n |-> 0, list |-> <<>>, obj |-> <<>>]
\* an array of strings
Arr(list) == [kind |-> "array", s |-> "", n |-> 0, list |-> list, obj |-> <<>>]
\* a plain object: its own keys in insertion order, entries [name, value]
Obj(entries) == [kind |-> "object", s |-> "", n |-> 0, list |-> <<>>, obj |-> entries]
\* models[name]: a model class of the models module, or undefined
ModelNames == {"Author", "Tag"}
models(name) ==
    IF name \in ModelNames
    THEN [kind |-> "model", s |-> name, n |-> 0, list |-> <<>>, obj |-> <<>>]
    ELSE Undefined
\* models.Sequelize.and(val): the conjunction of the conditions of val
SequelizeAnd(val) == [val EXCEPT !.kind = "and"]

Entry(name, value) == [name |-> name, value |-> value]

IsArray(v) == v.kind = "array"

\* JS truthiness (if (x), !x, x || y)
Truthy(v) ==
    CASE v.kind = "undefined" -> FALSE
      [] v.kind = "null" -> FALSE
      [] v.kind = "string" -> v.s # ""
      [] v.kind = "number" -> v.s # "NaN" /\ v.n # 0
      [] OTHER -> TRUE

\* a || b
Or(a, b) == IF Truthy(a) THEN a ELSE b

\* Number(s) of a string: decimal numerals parse, "" is 0, the rest is NaN
StringToNumber(s) ==
    IF s = "" THEN Num(0)
    ELSE IF \E i \in 0..MaxDigits : ToString(i) = s
         THEN Num(CHOOSE i \in 0..MaxDigits : ToString(i) = s)
         ELSE NaN

\* unary plus: +v
ToNumber(v) ==
    CASE v.kind = "number" -> v
      [] v.kind = "string" -> StringToNumber(v.s)
      [] v.kind = "null" -> Num(0)
      [] v.kind = "array" ->
            IF Len(v.list) = 0 THEN Num(0)
            ELSE IF Len(v.list) = 1 THEN StringToNumber(v.list[1])
            ELSE NaN
      [] OTHER -> NaN

-----------------------------------------------------------------------------
(* lodash *)

Keys(entries) == [i \in 1..Len(entries) |-> entries[i].name]
Range(seq) == {seq[i] : i \in 1..Len(seq)}
HasKey(entries, name) == \E i \in 1..Len(entries) : entries[i].name = name

\* object[name]
Prop(v, name) ==
    IF v.kind \in {"object", "and"} /\ HasKey(v.obj, name)
    THEN v.obj[CHOOSE i \in 1..Len(v.obj) : v.obj[i].name = name].value
    ELSE Undefined

\* _.get(object, path, defaultValue): the default stands in for undefined only
Get(v, name, defaultValue) ==
    IF Prop(v, name) = Undefined THEN defaultValue ELSE Prop(v, name)

RECURSIVE FilterEntries(_, _, _)
FilterEntries(entries, names, keep) ==
    IF entries = <<>> THEN <<>>
    ELSE LET rest == FilterEntries(Tail(entries), names, keep)
         IN IF (Head(entries).name \in names) = keep
            THEN <<Head(entries)>> \o rest
            ELSE rest

\* _.pick(object, names) / _.omit(object, names)
Pick(v, names) == Obj(IF v.kind = "object" THEN FilterEntries(v.obj, names, TRUE) ELSE <<>>)
Omit(v, names) == Obj(IF v.kind = "object" THEN FilterEntries(v.obj, names, FALSE) ELSE <<>>)

\* array.indexOf(x), -1 when absent
IndexOf(seq, x) ==
    IF \E i \in 1..Len(seq) : seq[i] = x
    THEN (CHOOSE i \in 1..Len(seq) : seq[i] = x /\ \A j \in 1..(i - 1) : seq[j] # x) - 1
    ELSE -1

RECURSIVE SelectNotIn(_, _)
SelectNotIn(list, banned) ==
    IF list = <<>> THEN <<>>
    ELSE IF Head(list) \in banned
         THEN SelectNotIn(Tail(list), banned)
         ELSE <<Head(list)>> \o SelectNotIn(Tail(list), banned)

\* the values _.difference flattens: only array arguments count, any other
\* argument (a string, null, undefined) contributes nothing
Flatten(a, b) ==
    (IF IsArray(a) THEN Range(a.list) ELSE {}) \cup
    (IF IsArray(b) THEN Range(b.list) ELSE {})

\* _.difference(array, a, b)
Difference(array, a, b) == Arr(SelectNotIn(array.list, Flatten(a, b)))

-----------------------------------------------------------------------------
(* Constants of the module and the controller's model *)

LIMIT == "limit"
OFFSET == "offset"
ORDER == "order"
INCLUDE == "include"
ATTRIBUTES == "attributes"
EXCLUDE == "exclude"
IGNORE == {LIMIT, OFFSET, ORDER, INCLUDE, ATTRIBUTES}

\* Base.LIMIT and Base.OFFSET, the static getters
BaseLIMIT == 100
BaseOFFSET == 0

\* this.relations: the names of the target models of the model's associations
relations == <<"Author", "Tag">>
\* Object.keys(this.model.attributes)
modelAttributes == Arr(<<"id", "title", "secret">>)

-----------------------------------------------------------------------------
(* _getOptions *)

\* the include accumulator: an object keyed by name, kept as entries
\* [name, props] where props holds the keys model, attributes and where
\* (Undefined for a key that is not set)
NoProps == [model |-> Undefined, attributes |-> Undefined, where |-> Undefined]

\* Set as an assignment of a fresh object, include[name] = {[key]: value},
\* which drops what an earlier use of the name had set
SetOverwrite(include, name, key, value) ==
    IF HasKey(include, name)
    THEN [i \in 1..Len(include) |->
            IF include[i].name = name
            THEN [include[i] EXCEPT !.props = [NoProps EXCEPT ![key] = value]]
            ELSE include[i]]
    ELSE Append(include, [name |-> name, props |-> [NoProps EXCEPT ![key] = value]])

\* _.set(include, name + '.' + key, value)
Set(include, name, key, value) ==
    IF HasKey(include, name)
    THEN [i \in 1..Len(include) |->
            IF include[i].name = name
            THEN [include[i] EXCEPT !.props[key] = value]
            ELSE include[i]]
    ELSE Append(include, [name |-> name, props |-> [NoProps EXCEPT ![key] = value]])

\* [attributes] for a single value (a string), the array itself otherwise
WrapArray(v) == IF IsArray(v) THEN v ELSE Arr(<<v.s>>)

\* the callback of the first reduce: one parameter (val, name) of options
IncludeStep(include, val, name) ==
    IF IndexOf(relations, name) > -1
    THEN LET withModel == Set(include, name, "model", models(name))
             attributes == Get(Pick(val, {ATTRIBUTES}), ATTRIBUTES, Undefined)
             withAttributes ==
                 IF Truthy(attributes)
                 THEN Set(withModel, name, ATTRIBUTES, WrapArray(attributes))
                 ELSE withModel
             conditions == IF Truthy(attributes) THEN Omit(val, {ATTRIBUTES}) ELSE val
         IN Set(withAttributes, name, "where", SequelizeAnd(conditions))
    ELSE include

RECURSIVE IncludeReduce(_, _)
IncludeReduce(entries, include) ==
    IF entries = <<>> THEN include
    ELSE IncludeReduce(Tail(entries),
                       IncludeStep(include, Head(entries).value, Head(entries).name))

\* options[INCLUDE] || [], wrapped into an array
IncludeModels(params) == WrapArray(Or(Prop(params, INCLUDE), Arr(<<>>))).list

RECURSIVE IncludeForEach(_, _)
IncludeForEach(names, include) ==
    IF names = <<>> THEN include
    ELSE IncludeForEach(Tail(names), Set(include, Head(names), "model", models(Head(names))))

\* _.map(value, (val, field) => [orderModel, field, val])
OrderTriples(orderModel, value) ==
    [i \in 1..Len(value.obj) |->
        <<orderModel, Str(value.obj[i].name), value.obj[i].value>>]

\* the callback of the second reduce; acc carries order and the include
\* object the callback writes to.  order.concat(...) returns a new array
\* that the callback does not keep.
OrderStep(acc, value, name) ==
    IF IndexOf(relations, name) > -1
    THEN LET orderModel == models(name)
             concatenated == acc.order \o OrderTriples(orderModel, value)
         IN [order |-> acc.order,
             include |-> Set(acc.include, name, "model", orderModel)]
    ELSE [order |-> Append(acc.order, <<Str(name), value>>),
          include |-> acc.include]

RECURSIVE OrderReduce(_, _)
OrderReduce(entries, acc) ==
    IF entries = <<>> THEN acc
    ELSE OrderReduce(Tail(entries),
                     OrderStep(acc, Head(entries).value, Head(entries).name))

\* the include object after the two reduces and the forEach
IncludeMap(params) ==
    LET reduced == IncludeReduce(params.obj, <<>>)
        listed == IncludeForEach(IncludeModels(params), reduced)
    IN OrderReduce(Prop(params, ORDER).obj, [order |-> <<>>, include |-> listed]).include

BuildOrder(params) ==
    LET reduced == IncludeReduce(params.obj, <<>>)
        listed == IncludeForEach(IncludeModels(params), reduced)
    IN OrderReduce(Prop(params, ORDER).obj, [order |-> <<>>, include |-> listed]).order

\* _.omit(options, _.keys(include), IGNORE)
BuildWhere(params) == Omit(params, Range(Keys(IncludeMap(params))) \cup IGNORE)

\* BuildLimit without the unary plus
BuildLimitNoCoercion(params) == Get(params, LIMIT, Num(BaseLIMIT))

BuildLimit(params) == ToNumber(Get(params, LIMIT, Num(BaseLIMIT)))
BuildOffset(params) == ToNumber(Get(params, OFFSET, Num(BaseOFFSET)))

\* options.attributes || this.defaultAttributes || Object.keys(...), wrapped
SelectedAttributes(params, defAttributes) ==
    WrapArray(Or(Or(Prop(params, ATTRIBUTES), defAttributes), modelAttributes))

BuildAttributes(params, defAttributes, defExclude) ==
    Difference(SelectedAttributes(params, defAttributes),
               Prop(params, EXCLUDE), defExclude)

\* _.values(include)
Values(include) == [i \in 1..Len(include) |-> include[i].props]

_getOptions(params, defAttributes, defExclude) ==
    [attributes |-> BuildAttributes(params, defAttributes, defExclude),
     where |-> BuildWhere(params),
     include |-> Values(IncludeMap(params)),
     order |-> BuildOrder(params),
     limit |-> BuildLimit(params),
     offset |-> BuildOffset(params),
     subQuery |-> FALSE]

-----------------------------------------------------------------------------
(* Inputs: the parameter objects a request can carry *)

\* the values of params.order: own fields with a direction, relations with
\* an object of field directions
OrderChoices ==
    {Entry("title", Str("asc")),
     Entry("Author", Obj(<<Entry("name", Str("desc")), Entry("age", Str("asc"))>>))}

\* the objects of at most k keys with entries drawn from choices, every
\* key order included
RECURSIVE Objects(_, _)
Objects(choices, k) ==
    IF k = 0 THEN {<<>>}
    ELSE LET shorter == Objects(choices, k - 1)
         IN shorter \cup
            {Append(oe[1], oe[2]) :
                oe \in {p \in shorter \X choices : ~HasKey(p[1], p[2].name)}}

ParamChoices ==
    {Entry(LIMIT, Str("10")), Entry(LIMIT, Num(5)), Entry(LIMIT, Str("abc")),
     Entry(OFFSET, Str("20")), Entry(OFFSET, Str("abc")),
     Entry(INCLUDE, Str("Author")), Entry(INCLUDE, Arr(<<"Tag", "Author", "Tag">>)),
     Entry(ATTRIBUTES, Str("title")), Entry(ATTRIBUTES, Arr(<<"secret", "id">>)),
     Entry(EXCLUDE, Str("secret")), Entry(EXCLUDE, Arr(<<"secret", "title">>)),
     Entry("title", Str("x")),
     Entry("Author", Obj(<<Entry("name", Str("bob"))>>)),
     Entry("Author", Obj(<<Entry("name", Str("bob")),
                           Entry(ATTRIBUTES, Str("name"))>>)),
     Entry("Tag", Obj(<<Entry(ATTRIBUTES, Arr(<<"label", "id">>)),
                        Entry("label", Str("y"))>>))}
    \cup {Entry(ORDER, Obj(o)) :
            o \in Objects(OrderChoices, Cardinality(OrderChoices)) \ {<<>>}}

\* the parameter trees of at most k keys
Requests(k) == {Obj(o) : o \in Objects(ParamChoices, k)}
\* the parameter trees _getOptions is applied to on its own
AllRequests == Requests(MaxParams)
\* the parameter trees find and findById are called with
FlowRequests == Requests(MaxFlowParams)

\* the values this.defaultAttributes / this.defaultExclude can hold: null
\* from the constructor, or a list assigned by a subclass
DefaultAttributesChoices == {Null, Arr(<<"id", "title">>)}
DefaultExcludeChoices == {Null, Arr(<<"secret">>)}

\* the bodies create/update receive and the conditions remove receives
DataChoices ==
    {Obj(<<Entry("title", Str("x"))>>),
     Obj(<<Entry("title", Str("x")), Entry("secret", Str("s"))>>)}
ConditionChoices ==
    {Obj(<<Entry("id", Num(1))>>), Obj(<<Entry("title", Str("x"))>>)}

-----------------------------------------------------------------------------
(* The ORM and the HTTP error constructor *)

\* a model instance, named by its row number
Instance(i) == [kind |-> "instance", s |-> ToString(i), n |-> 0, list |-> <<>>, obj |-> <<>>]
Instances == {Instance(i) : i \in 1..MaxRows}
\* an array of k instances (list holds their names)
Rows(k) == Arr([i \in 1..k |-> ToString(i)])
\* what Model.update resolves with: the array [affectedCount] (n is its element)
AffectedArray(count) == [kind |-> "array", s |-> "", n |-> count, list |-> <<>>, obj |-> <<>>]

\* HttpError(status)
HttpError(status) == [name |-> "HttpError", status |-> status]
UniqueConstraintError == [name |-> "SequelizeUniqueConstraintError", status |-> 0]
DatabaseError == [name |-> "SequelizeDatabaseError", status |-> 0]
OrmErrors == {UniqueConstraintError, DatabaseError}
NoError == [name |-> "", status |-> 0]

\* promises
NoPromise == [state |-> "none", value |-> Undefined, error |-> NoError]
Pending == [state |-> "pending", value |-> Undefined, error |-> NoError]
Resolved(value) == [state |-> "resolved", value |-> value, error |-> NoError]
Rejected(error) == [state |-> "rejected", value |-> Undefined, error |-> error]
Settled(p) == p.state \in {"resolved", "rejected"}

\* an ORM call as issued: the method and its arguments
Call(method, first, second) == [method |-> method, first |-> first, second |-> second]

NoRequest == [method |-> "", id |-> Undefined, params |-> Undefined, data |-> Undefined]
NoOptions == [none |-> TRUE]

-----------------------------------------------------------------------------
(* The controller *)

\* constructor(): defaultAttributes and defaultExclude are null unless a
\* subclass assigns them; no request is in progress
Init ==
    /\ defaultAttributes \in DefaultAttributesChoices
    /\ defaultExclude \in DefaultExcludeChoices
    /\ pc = "idle"
    /\ request = NoRequest
    /\ options = NoOptions
    /\ calls = <<>>
    /\ promises = <<>>
    /\ result = NoPromise

\* OmitLimitOffset that omits the limit alone
OmitLimitOnly(built) == [k \in (DOMAIN built) \ {LIMIT} |-> built[k]]

\* _.omit(options, LIMIT, OFFSET) of the built options
OmitLimitOffset(built) == [k \in (DOMAIN built) \ {LIMIT, OFFSET} |-> built[k]]

\* find(params), to the return of Promise.all(...).spread(...).  tree is
\* what paramsToTree(params) returned.
find(tree) ==
    /\ pc = "idle"
    /\ LET built == _getOptions(tree, defaultAttributes, defaultExclude)
       IN /\ options' = built
          /\ calls' = <<Call("findAll", built, Undefined),
                        Call("count", OmitLimitOffset(built), Undefined)>>
    /\ request' = [NoRequest EXCEPT !.method = "find", !.params = tree]
    /\ promises' = <<Pending, Pending>>
    /\ result' = Pending
    /\ pc' = "find"
    /\ UNCHANGED <<defaultAttributes, defaultExclude>>

\* the spread callback of find
FindResult(data, total, built) ==
    [data |-> data,
     meta |-> [count |-> Len(data.list),
               total |-> total,
               limit |-> built.limit,
               offset |-> built.offset]]

\* Promise.all([dataP, totalP]).spread(cb): rejected with the first rejection,
\* resolved with cb's value once both are resolved
PromiseAll(current, dataP, totalP, built) ==
    IF Settled(current) THEN current
    ELSE IF dataP.state = "rejected" THEN Rejected(dataP.error)
    ELSE IF totalP.state = "rejected" THEN Rejected(totalP.error)
    ELSE IF dataP.state = "resolved" /\ totalP.state = "resolved"
         THEN Resolved(FindResult(dataP.value, totalP.value, built))
         ELSE current

\* the outcomes of findAll and of count
FindAllOutcomes == {Resolved(Rows(k)) : k \in 0..MaxRows} \cup {Rejected(DatabaseError)}
CountOutcomes == {Resolved(Num(k)) : k \in 0..MaxRows} \cup {Rejected(DatabaseError)}

\* the findAll promise settles
findAllSettles(outcome) ==
    /\ pc = "find"
    /\ promises[1].state = "pending"
    /\ promises' = [promises EXCEPT ![1] = outcome]
    /\ result' = PromiseAll(result, outcome, promises[2], options)
    /\ pc' = IF Settled(result') THEN "done" ELSE "find"
    /\ UNCHANGED <<defaultAttributes, defaultExclude, request, options, calls>>

\* the count promise settles
countSettles(outcome) ==
    /\ pc = "find"
    /\ promises[2].state = "pending"
    /\ promises' = [promises EXCEPT ![2] = outcome]
    /\ result' = PromiseAll(result, promises[1], outcome, options)
    /\ pc' = IF Settled(result') THEN "done" ELSE "find"
    /\ UNCHANGED <<defaultAttributes, defaultExclude, request, options, calls>>

\* findById(id, params), to the return of the promise chain
findById(id, params) ==
    /\ pc = "idle"
    /\ LET built == _getOptions(params, defaultAttributes, defaultExclude)
       IN /\ options' = built
          /\ calls' = <<Call("findById", Num(id), built)>>
    /\ request' = [NoRequest EXCEPT !.method = "findById", !.id = Num(id), !.params = params]
    /\ promises' = <<Pending>>
    /\ result' = Pending
    /\ pc' = "findById"
    /\ UNCHANGED <<defaultAttributes, defaultExclude>>

\* findByIdCallback without the check for a missing record
findByIdCallbackNoCheck(data) == Resolved([data |-> data])

\* the then-callback of findById: data is the instance found, or null
findByIdCallback(data) ==
    IF ~Truthy(data) THEN Rejected(HttpError(404)) ELSE Resolved([data |-> data])

\* Model.findById resolves with the instance, or null when there is none
FindByIdOutcomes == Instances \cup {Null}

findByIdThen(data) ==
    /\ pc = "findById"
    /\ promises' = <<Resolved(data)>>
    /\ result' = findByIdCallback(data)
    /\ pc' = "done"
    /\ UNCHANGED <<defaultAttributes, defaultExclude, request, options, calls>>

\* the ORM promise of findById/update/destroy is rejected: the chain has no
\* catch handler, the returned promise is rejected with the same error
ormRejected(e) ==
    /\ pc \in {"findById", "update", "remove"}
    /\ promises' = <<Rejected(e)>>
    /\ result' = Rejected(e)
    /\ pc' = "done"
    /\ UNCHANGED <<defaultAttributes, defaultExclude, request, options, calls>>

\* create(data), to the return of the promise chain
create(data) ==
    /\ pc = "idle"
    /\ calls' = <<Call("create", data, Undefined)>>
    /\ request' = [NoRequest EXCEPT !.method = "create", !.data = data]
    /\ promises' = <<Pending>>
    /\ result' = Pending
    /\ pc' = "create"
    /\ UNCHANGED <<defaultAttributes, defaultExclude, options>>

\* model.create resolved: the catch handler is skipped, then wraps the record
createThen(record) ==
    /\ pc = "create"
    /\ promises' = <<Resolved(record)>>
    /\ result' = Resolved([data |-> record])
    /\ pc' = "done"
    /\ UNCHANGED <<defaultAttributes, defaultExclude, request, options, calls>>

\* IsUniqueConstraintError that takes every ORM error for a unique-constraint one
IsAnyOrmError(e) == e.name # ""

\* e instanceof models.Sequelize.UniqueConstraintError
IsUniqueConstraintError(e) == e.name = "SequelizeUniqueConstraintError"

\* model.create rejected: the catch handler rethrows, or looks the record up
createCatch(e) ==
    /\ pc = "create"
    /\ IF ~IsUniqueConstraintError(e)
       THEN /\ promises' = <<Rejected(e)>>
            /\ result' = Rejected(e)
            /\ pc' = "done"
            /\ calls' = calls
       ELSE /\ promises' = <<Rejected(e), Pending>>
            /\ calls' = Append(calls, Call("findOne", [where |-> request.data], Undefined))
            /\ pc' = "createLookup"
            /\ result' = result
    /\ UNCHANGED <<defaultAttributes, defaultExclude, request, options>>

\* Model.findOne resolves with the instance or null, or is rejected
FindOneOutcomes ==
    {Resolved(r) : r \in Instances \cup {Null}} \cup {Rejected(DatabaseError)}

\* the findOne of the catch handler settles; then wraps what it found
findOneSettles(outcome) ==
    /\ pc = "createLookup"
    /\ promises' = [promises EXCEPT ![2] = outcome]
    /\ result' = IF outcome.state = "resolved"
                 THEN Resolved([data |-> outcome.value])
                 ELSE outcome
    /\ pc' = "done"
    /\ UNCHANGED <<defaultAttributes, defaultExclude, request, options, calls>>

\* update(id, data), to the return of the promise chain
update(id, data) ==
    /\ pc = "idle"
    /\ calls' = <<Call("update", data, [where |-> Obj(<<Entry("id", Num(id))>>)])>>
    /\ request' = [NoRequest EXCEPT !.method = "update", !.id = Num(id), !.data = data]
    /\ promises' = <<Pending>>
    /\ result' = Pending
    /\ pc' = "update"
    /\ UNCHANGED <<defaultAttributes, defaultExclude, options>>

\* the then-callback of update
updateCallback(affectedRows) ==
    IF ~Truthy(affectedRows) THEN Rejected(HttpError(204)) ELSE Resolved(Undefined)

\* Model.update resolves with the array [affectedCount]
UpdateOutcomes == {AffectedArray(k) : k \in 0..MaxRows}

updateThen(affectedRows) ==
    /\ pc = "update"
    /\ promises' = <<Resolved(affectedRows)>>
    /\ result' = updateCallback(affectedRows)
    /\ pc' = "done"
    /\ UNCHANGED <<defaultAttributes, defaultExclude, request, options, calls>>

\* remove(condition), to the return of the promise chain
remove(condition) ==
    /\ pc = "idle"
    /\ calls' = <<Call("destroy", [where |-> condition], Undefined)>>
    /\ request' = [NoRequest EXCEPT !.method = "remove", !.data = condition]
    /\ promises' = <<Pending>>
    /\ result' = Pending
    /\ pc' = "remove"
    /\ UNCHANGED <<defaultAttributes, defaultExclude, options>>

\* removeCallback that never throws
removeCallbackNoThrow(affectedRows) == Resolved(Undefined)

\* the then-callback of remove
removeCallback(affectedRows) ==
    IF ~Truthy(affectedRows) THEN Rejected(HttpError(202)) ELSE Resolved(Undefined)

\* Model.destroy resolves with the number of destroyed rows
DestroyOutcomes == {Num(k) : k \in 0..MaxRows}

removeThen(affectedRows) ==
    /\ pc = "remove"
    /\ promises' = <<Resolved(affectedRows)>>
    /\ result' = removeCallback(affectedRows)
    /\ pc' = "done"
    /\ UNCHANGED <<defaultAttributes, defaultExclude, request, options, calls>>

\* a call of a public method starts from idle; the guards stand before the
\* quantifiers so that the inputs are enumerated only where a call can start
Next ==
    \/ pc = "idle" /\ \E tree \in FlowRequests : find(tree)
    \/ pc = "find" /\ \E outcome \in FindAllOutcomes : findAllSettles(outcome)
    \/ pc = "find" /\ \E outcome \in CountOutcomes : countSettles(outcome)
    \/ pc = "idle" /\ \E id \in 0..MaxId, params \in FlowRequests : findById(id, params)
    \/ \E data \in FindByIdOutcomes : findByIdThen(data)
    \/ \E e \in OrmErrors : ormRejected(e)
    \/ \E data \in DataChoices : create(data)
    \/ \E record \in Instances : createThen(record)
    \/ \E e \in OrmErrors : createCatch(e)
    \/ \E outcome \in FindOneOutcomes : findOneSettles(outcome)
    \/ \E id \in 0..MaxId, data \in DataChoices : update(id, data)
    \/ \E affectedRows \in UpdateOutcomes : updateThen(affectedRows)
    \/ \E condition \in ConditionChoices : remove(condition)
    \/ \E affectedRows \in DestroyOutcomes : removeThen(affectedRows)

Spec == Init /\ [][Next]_vars

\* _getOptions(options) on its own, over every parameter object of the bounds
callGetOptions(params) ==
    /\ pc = "idle"
    /\ options' = _getOptions(params, defaultAttributes, defaultExclude)
    /\ request' = [NoRequest EXCEPT !.method = "_getOptions", !.params = params]
    /\ pc' = "done"
    /\ UNCHANGED <<defaultAttributes, defaultExclude, calls, promises, result>>

NextOptions == pc = "idle" /\ \E params \in AllRequests : callGetOptions(params)

SpecOptions == Init /\ [][NextOptions]_vars

-----------------------------------------------------------------------------
(* Properties *)

\* the names a parameter value lists: the elements of an array, the string
\* itself for a single value
NamesOf(v) ==
    IF IsArray(v) THEN Range(v.list)
    ELSE IF v.kind = "string" THEN {v.s}
    ELSE {}

\* the same as a list: the array's elements, or the single value
NamesOfList(v) == IF IsArray(v) THEN v.list ELSE <<v.s>>

\* _getOptions has returned for the parameters in request.params
OptionsBuilt == pc = "done" /\ request.method = "_getOptions"

\* C1: findById rejects with HTTP 404 when the ORM lookup yields no record,
\* resolves to exactly {data: r} when it yields the record r, and never
\* resolves with a null data; the lookup is findById(id, built options).
C1_FindByIdNotFound ==
    (pc = "done" /\ request.method = "findById" /\ promises[1].state = "resolved") =>
        /\ calls = <<Call("findById", request.id, options)>>
        /\ (promises[1].value = Null => result = Rejected(HttpError(404)))
        /\ (promises[1].value \in Instances =>
                result = Resolved([data |-> promises[1].value]))
        /\ (result.state = "resolved" => result.value.data \in Instances)

\* C1 witness: a lookup that found nothing was answered with 404
C1_Witness ==
    /\ pc = "done"
    /\ request.method = "findById"
    /\ promises = <<Resolved(Null)>>
    /\ result.state = "rejected"
    /\ result.error.status = 404

\* C2: create resolves to {data: created record} when the ORM create
\* succeeds; on a UniqueConstraintError it looks up findOne({where: data})
\* and resolves to {data: what was found}; on any other error it is rejected
\* with that error and no lookup is made.
C2_CreateFallback ==
    (pc = "done" /\ request.method = "create") =>
        /\ calls[1] = Call("create", request.data, Undefined)
        /\ (promises[1].state = "resolved" =>
                /\ Len(calls) = 1
                /\ result = Resolved([data |-> promises[1].value]))
        /\ (promises[1] = Rejected(UniqueConstraintError) =>
                /\ Len(calls) = 2
                /\ calls[2] = Call("findOne", [where |-> request.data], Undefined)
                /\ (promises[2].state = "resolved" =>
                        result = Resolved([data |-> promises[2].value])))
        /\ (promises[1].state = "rejected" /\ promises[1].error # UniqueConstraintError =>
                /\ Len(calls) = 1
                /\ result = Rejected(promises[1].error))

\* C2 witness: a unique-constraint failure answered with the record found
C2_Witness ==
    /\ pc = "done"
    /\ request.method = "create"
    /\ promises = <<Rejected(UniqueConstraintError), Resolved(Instance(1))>>
    /\ result = Resolved([data |-> Instance(1)])

\* C3 (as claimed): update issues update(data, {where: {id}}); when no row
\* was updated the promise is rejected with HTTP 204, when at least one row
\* was updated it resolves with no value.
C3_UpdateNoRow204 ==
    (pc = "done" /\ request.method = "update" /\ promises[1].state = "resolved") =>
        /\ calls = <<Call("update", request.data,
                          [where |-> Obj(<<Entry("id", request.id)>>)])>>
        /\ (promises[1].value.n = 0 => result = Rejected(HttpError(204)))
        /\ (promises[1].value.n >= 1 => result = Resolved(Undefined))

\* C4: remove issues destroy({where: condition}); when no row was deleted
\* the promise is rejected with HTTP 202, when at least one row was deleted
\* it resolves with no value.
C4_RemoveNoRow202 ==
    (pc = "done" /\ request.method = "remove" /\ promises[1].state = "resolved") =>
        /\ calls = <<Call("destroy", [where |-> request.data], Undefined)>>
        /\ (promises[1].value.n = 0 => result = Rejected(HttpError(202)))
        /\ (promises[1].value.n >= 1 => result = Resolved(Undefined))

\* C4 witness: a destroy that deleted nothing was answered with 202
C4_Witness ==
    /\ pc = "done"
    /\ request.method = "remove"
    /\ promises = <<Resolved(Num(0))>>
    /\ result.state = "rejected"
    /\ result.error.status = 202

\* C5: find issues findAll with the built options and count with the same
\* options less limit and offset; it resolves, once both have resolved, to
\* {data, meta} with data the findAll result, meta.count its length,
\* meta.total the count result and meta.limit/offset those of the built
\* options; it is rejected if either of the two fails.
C5_FindResult ==
    request.method = "find" =>
        /\ calls[1] = Call("findAll", options, Undefined)
        /\ calls[2].method = "count"
        /\ DOMAIN calls[2].first = (DOMAIN options) \ {"limit", "offset"}
        /\ \A k \in DOMAIN calls[2].first : calls[2].first[k] = options[k]
        /\ (result.state = "resolved" <=>
                promises[1].state = "resolved" /\ promises[2].state = "resolved")
        /\ (result.state = "resolved" =>
                /\ result.value.data = promises[1].value
                /\ result.value.meta.count = Len(promises[1].value.list)
                /\ result.value.meta.total = promises[2].value
                /\ result.value.meta.limit = options.limit
                /\ result.value.meta.offset = options.offset)
        /\ (promises[1].state = "rejected" \/ promises[2].state = "rejected" =>
                result.state = "rejected")

\* C5 witness: a find with a limit resolved with one record of two in total
C5_Witness ==
    /\ pc = "done"
    /\ request.method = "find"
    /\ Prop(request.params, LIMIT) = Str("10")
    /\ result.state = "resolved"
    /\ result.value.data = Rows(1)
    /\ result.value.meta =
           [count |-> 1, total |-> Num(2), limit |-> Num(10), offset |-> Num(0)]

\* a value of type number other than NaN
IsFiniteNumber(v) == v.kind = "number" /\ v.s # "NaN"

\* C6 (as claimed): without a limit the built limit is 100, without an
\* offset the built offset is 0, and the built limit and offset are numbers
\* for every input.
C6_LimitOffsetAlwaysNumbers ==
    OptionsBuilt =>
        /\ (Prop(request.params, LIMIT) = Undefined => options.limit = Num(100))
        /\ (Prop(request.params, OFFSET) = Undefined => options.offset = Num(0))
        /\ IsFiniteNumber(options.limit)
        /\ IsFiniteNumber(options.offset)

\* the built value of a pagination key is the numeric coercion of the
\* supplied one: a number is kept, a decimal numeral is its number, any
\* other string is NaN
CoercedFrom(built, supplied) ==
    /\ built.kind = "number"
    /\ (supplied.kind = "number" => built = supplied)
    /\ (supplied.kind = "string" =>
            /\ \A i \in 0..MaxDigits : ToString(i) = supplied.s => built = Num(i)
            /\ ((\A i \in 0..MaxDigits : ToString(i) # supplied.s) /\ supplied.s # ""
                    => built = NaN))

\* C6 (amended): without a limit the built limit is 100, without an offset
\* the built offset is 0; a supplied value is coerced to a number, which is
\* NaN when the value is not numeric; both are always of type number.
C6_LimitOffsetCoerced ==
    OptionsBuilt =>
        /\ (Prop(request.params, LIMIT) = Undefined => options.limit = Num(100))
        /\ (Prop(request.params, OFFSET) = Undefined => options.offset = Num(0))
        /\ (Prop(request.params, LIMIT) # Undefined =>
                CoercedFrom(options.limit, Prop(request.params, LIMIT)))
        /\ (Prop(request.params, OFFSET) # Undefined =>
                CoercedFrom(options.offset, Prop(request.params, OFFSET)))
        /\ options.limit.kind = "number"
        /\ options.offset.kind = "number"

\* C6 witness: the default limit beside a supplied offset
C6_Witness ==
    /\ OptionsBuilt
    /\ Prop(request.params, LIMIT) = Undefined
    /\ Prop(request.params, OFFSET) = Str("20")
    /\ options.limit = Num(100)
    /\ options.offset = Num(20)

\* what the order list is claimed to be: a pair per own-field key, a triple
\* per field of a relation key, in the order of the keys
RECURSIVE ExpectedOrder(_)
ExpectedOrder(entries) ==
    IF entries = <<>> THEN <<>>
    ELSE LET e == Head(entries)
             own == IF e.name \in Range(relations)
                    THEN [i \in 1..Len(e.value.obj) |->
                            <<models(e.name), Str(e.value.obj[i].name),
                              e.value.obj[i].value>>]
                    ELSE << <<Str(e.name), e.value>> >>
         IN own \o ExpectedOrder(Tail(entries))

\* C7 (as claimed): the built order holds a pair for every own-field key of
\* params.order and a triple for every field of every relation key, in the
\* order of the keys, none dropped; a relation key's model is in include.
C7_OrderKeepsEveryEntry ==
    OptionsBuilt =>
        LET given == Prop(request.params, ORDER).obj
        IN /\ options.order = ExpectedOrder(given)
           /\ \A i \in 1..Len(given) :
                 given[i].name \in Range(relations) =>
                    \E j \in 1..Len(options.include) :
                        options.include[j].model = models(given[i].name)

\* C8 (as claimed): the built attributes are the selected list (the given
\* attributes, else defaultAttributes, else the model's attributes) less
\* every name of params.exclude and of defaultExclude, in the original
\* order; no excluded attribute appears in them.
C8_AttributesLessExcluded ==
    OptionsBuilt =>
        LET given == Prop(request.params, ATTRIBUTES)
            selected == IF given # Undefined THEN NamesOfList(given)
                        ELSE IF defaultAttributes # Null THEN defaultAttributes.list
                        ELSE modelAttributes.list
            excluded == NamesOf(Prop(request.params, EXCLUDE)) \cup NamesOf(defaultExclude)
        IN /\ options.attributes.list = SelectNotIn(selected, excluded)
           /\ Range(options.attributes.list) \cap excluded = {}

\* the reserved parameter names of the claim
Reserved == {"limit", "offset", "order", "include", "attributes", "exclude"}

\* the names that become include entries: relation keys of the parameters,
\* names listed in params.include, relation keys of params.order
IncludeNames(params) ==
    {name \in Range(Keys(params.obj)) : name \in Range(relations)}
    \cup NamesOf(Prop(params, INCLUDE))
    \cup {name \in Range(Keys(Prop(params, ORDER).obj)) : name \in Range(relations)}

\* C9 (as claimed): the built where holds exactly the parameters that are
\* filters on own fields, unchanged; no reserved name and no name that
\* became an include entry is a key of where.
C9_WhereOnlyFilters ==
    OptionsBuilt =>
        LET notFilters == Reserved \cup IncludeNames(request.params)
        IN /\ Range(Keys(options.where.obj)) \cap notFilters = {}
           /\ options.where.obj = FilterEntries(request.params.obj, notFilters, FALSE)

====
